---- MODULE Spec2Model ----
(***************************************************************************)
(* A model of dashboard_consolidacion.py: one run of the script, from the  *)
(* fetch of the sheet (load_data) through preprocess_data, the sidebar     *)
(* filters, the filtered table and the aggregates.                         *)
(*                                                                         *)
(* A text is a sequence of one-character strings.  A cell of a table is    *)
(* NaN (the empty tuple) or <<v>>: v is a text in the columns of the sheet *)
(* as pd.read_csv returns it (an empty field is NaN, every other field a   *)
(* text), a timestamp record in "Marca temporal" after pd.to_datetime, a   *)
(* number in the derived numeric columns.                                  *)
(***************************************************************************)
EXTENDS Integers, Sequences, FiniteSets, TLC

(***************************************************************************)
(* Texts                                                                   *)
(***************************************************************************)
NaN == << >>

IsNa(c) == c = << >>

Val(c) == c[1]

Cell(v) == << v >>

\* the element of a one-element set; {e : x \in {v}} is e with x bound to
\* the value of v
The(S) == CHOOSE x \in S : TRUE

LowerChars ==
  << "a", "b", "c", "d", "e", "f", "g", "h", "i", "j", "k", "l", "m",
     "n", "o", "p", "q", "r", "s", "t", "u", "v", "w", "x", "y", "z",
     "á", "é", "í", "ó", "ú", "ì", "ñ" >>

UpperChars ==
  << "A", "B", "C", "D", "E", "F", "G", "H", "I", "J", "K", "L", "M",
     "N", "O", "P", "Q", "R", "S", "T", "U", "V", "W", "X", "Y", "Z",
     "Á", "É", "Í", "Ó", "Ú", "Ì", "Ñ" >>

IndexIn(c, chars) ==
  IF \E i \in 1..Len(chars) : chars[i] = c
  THEN CHOOSE i \in 1..Len(chars) : chars[i] = c
  ELSE 0

\* str.upper() and str.lower() of one character
UpperChar(c) == IF IndexIn(c, LowerChars) > 0 THEN UpperChars[IndexIn(c, LowerChars)] ELSE c

LowerChar(c) == IF IndexIn(c, UpperChars) > 0 THEN LowerChars[IndexIn(c, UpperChars)] ELSE c

IsLetter(c) == IndexIn(c, LowerChars) > 0 \/ IndexIn(c, UpperChars) > 0

IsSpace(c) == c \in {" ", "\t"}

\* str.upper()
StrUpper(s) == [i \in 1..Len(s) |-> UpperChar(s[i])]

RECURSIVE LStrip(_)
LStrip(s) == IF s # << >> /\ IsSpace(Head(s)) THEN LStrip(Tail(s)) ELSE s

RECURSIVE RStrip(_)
RStrip(s) ==
  IF s # << >> /\ IsSpace(s[Len(s)]) THEN RStrip(SubSeq(s, 1, Len(s) - 1)) ELSE s

\* str.strip()
StrStrip(s) == RStrip(LStrip(s))

\* str.title(): a letter that follows a non-letter is upper-cased, every
\* other letter is lower-cased
StrTitle(s) ==
  [i \in 1..Len(s) |->
     IF i = 1 \/ ~IsLetter(s[i - 1]) THEN UpperChar(s[i]) ELSE LowerChar(s[i])]

Digits == << "0", "1", "2", "3", "4", "5", "6", "7", "8", "9" >>

IsDigit(c) == IndexIn(c, Digits) > 0

AllDigits(s) == \A i \in 1..Len(s) : IsDigit(s[i])

RECURSIVE ToNat(_)
ToNat(s) ==
  IF s = << >> THEN 0
  ELSE 10 * ToNat(SubSeq(s, 1, Len(s) - 1)) + (IndexIn(s[Len(s)], Digits) - 1)

\* the fields of s between the occurrences of the character sep
RECURSIVE Split(_, _)
Split(s, sep) ==
  IF \E i \in 1..Len(s) : s[i] = sep
  THEN LET k == CHOOSE i \in 1..Len(s) :
                  s[i] = sep /\ \A j \in 1..(i - 1) : s[j] # sep
       IN  << SubSeq(s, 1, k - 1) >> \o Split(SubSeq(s, k + 1, Len(s)), sep)
  ELSE << s >>

(***************************************************************************)
(* Dates: what the .dt accessors of a datetime column compute              *)
(***************************************************************************)
IsLeap(y) == (y % 4 = 0 /\ y % 100 # 0) \/ y % 400 = 0

DaysInMonth(y, m) ==
  IF m = 2 THEN (IF IsLeap(y) THEN 29 ELSE 28)
  ELSE IF m \in {4, 6, 9, 11} THEN 30 ELSE 31

RECURSIVE DaysBeforeMonth(_, _)
DaysBeforeMonth(y, m) ==
  IF m <= 1 THEN 0 ELSE DaysBeforeMonth(y, m - 1) + DaysInMonth(y, m - 1)

DaysBeforeYear(y) ==
  365 * (y - 1) + ((y - 1) \div 4) - ((y - 1) \div 100) + ((y - 1) \div 400)

\* the proleptic Gregorian ordinal: 1 is 0001-01-01, a Monday
ToOrdinal(y, m, d) == DaysBeforeYear(y) + DaysBeforeMonth(y, m) + d

\* .dt.dayofweek: Monday is 0, Sunday is 6
DayOfWeek(t) == (ToOrdinal(t.year, t.month, t.day) + 6) % 7

IsoWeek1Monday(y) ==
  LET firstday == ToOrdinal(y, 1, 1)
      firstweekday == (firstday + 6) % 7
      monday == firstday - firstweekday
  IN  IF firstweekday > 3 THEN monday + 7 ELSE monday

\* .dt.isocalendar().week
IsoWeek(t) ==
  LET today == ToOrdinal(t.year, t.month, t.day)
      week == (today - IsoWeek1Monday(t.year)) \div 7
  IN  IF week < 0 THEN ((today - IsoWeek1Monday(t.year - 1)) \div 7) + 1
      ELSE IF week >= 52 /\ today >= IsoWeek1Monday(t.year + 1) THEN 1
      ELSE week + 1

MonthNames ==
  << "January", "February", "March", "April", "May", "June", "July",
     "August", "September", "October", "November", "December" >>

DayNames ==
  << "Monday", "Tuesday", "Wednesday", "Thursday", "Friday", "Saturday", "Sunday" >>

(***************************************************************************)
(* pd.to_datetime                                                          *)
(***************************************************************************)
NaT == << >>

FmtFechaHora == "%d/%m/%Y %H:%M:%S"

FmtFecha == "%d/%m/%Y"

DayFirst == "dayfirst=True"

\* a field of 1 or 2 digits (of exactly n digits when n > 2) whose value
\* lies in lo..hi
NumField(f, n, lo, hi) ==
  /\ AllDigits(f)
  /\ IF n > 2 THEN Len(f) = n ELSE Len(f) \in 1..2
  /\ ToNat(f) \in lo..hi

\* <<year, month, day>> of a text "d/m/Y" (the separator is sep, the year
\* is the field number yi), or << >>
DateFields(s, sep, yi) ==
  LET p == Split(s, sep)
      di == IF yi = 3 THEN 1 ELSE 3
  IN  IF /\ Len(p) = 3
         /\ NumField(p[yi], 4, 1, 9999)
         /\ NumField(p[2], 2, 1, 12)
         /\ NumField(p[di], 2, 1, 31)
         /\ ToNat(p[di]) <= DaysInMonth(ToNat(p[yi]), ToNat(p[2]))
      THEN << ToNat(p[yi]), ToNat(p[2]), ToNat(p[di]) >>
      ELSE << >>

\* <<hour, minute, second>> of a text "H:M:S", or << >>
TimeFields(s) ==
  LET p == Split(s, ":")
  IN  IF /\ Len(p) = 3
         /\ NumField(p[1], 2, 0, 23)
         /\ NumField(p[2], 2, 0, 59)
         /\ NumField(p[3], 2, 0, 59)
      THEN << ToNat(p[1]), ToNat(p[2]), ToNat(p[3]) >>
      ELSE << >>

Timestamp(d, t) ==
  Cell([year |-> d[1], month |-> d[2], day |-> d[3],
        hour |-> t[1], minute |-> t[2], second |-> t[3]])

\* the fields of s between runs of blanks; a leading or a trailing blank
\* leaves an empty field
Words(s) ==
  LET p == Split(s, " ")
  IN  SelectSeq(p, LAMBDA f : f # << >>)
        \o (IF s # << >> /\ (s[1] = " " \/ s[Len(s)] = " ") THEN << << >> >> ELSE << >>)

\* a text in one strptime format: the whole text has to match
Strptime(s, fmt) ==
  LET w == Words(s)
  IN  IF fmt = FmtFechaHora
      THEN IF Len(w) = 2 /\ DateFields(w[1], "/", 3) # << >> /\ TimeFields(w[2]) # << >>
           THEN Timestamp(DateFields(w[1], "/", 3), TimeFields(w[2]))
           ELSE NaT
      ELSE IF DateFields(s, "/", 3) # << >>
           THEN Timestamp(DateFields(s, "/", 3), << 0, 0, 0 >>)
           ELSE NaT

\* the lenient parse of a text, day first: a date d/m/Y or d-m-Y, else an
\* ISO date Y-m-d, with or without a time of day
ParseDayFirst(s) ==
  LET w == Words(s)
      date(x) == IF DateFields(x, "/", 3) # << >> THEN DateFields(x, "/", 3)
                 ELSE IF DateFields(x, "-", 3) # << >> THEN DateFields(x, "-", 3)
                 ELSE DateFields(x, "-", 1)
  IN  IF Len(w) = 1 /\ date(w[1]) # << >> THEN Timestamp(date(w[1]), << 0, 0, 0 >>)
      ELSE IF Len(w) = 2 /\ date(w[1]) # << >> /\ TimeFields(w[2]) # << >>
           THEN Timestamp(date(w[1]), TimeFields(w[2]))
           ELSE NaT

\* pd.to_datetime(..., errors="coerce") of one cell of a column of dtype
\* dtype: a column that already holds datetimes is returned as it is, NaT
\* included; only a text is parsed
ToDatetime(dtype, c, how) ==
  IF IsNa(c) THEN NaT
  ELSE IF dtype = "datetime64" THEN c
  ELSE IF how = DayFirst THEN ParseDayFirst(Val(c))
  ELSE Strptime(Val(c), how)

(***************************************************************************)
(* Tables.  A DataFrame is [cols, rows]: the set of its column names and   *)
(* the sequence of its rows, each a function from cols to cells.           *)
(***************************************************************************)
ColMarca == "Marca temporal"

ColNombre == "Nombres y apellidos completos"

ColEdad == "Tú eres:"

ColBarrio == "¿En qué barrio vives?"

ColLlamada == "Llamada realizada y contestada (SI/NO)"

ColCelula == "Ubicado en célula o Grupo Go! (SI/NO)"

ColVisita == "Visita realizada (SI/NO)"

posibles_lideres ==
  << "Líder Principal", "LIDER DE DOCE", "Lider Principal", "LÍDER PRINCIPAL" >>

posibles_reuniones ==
  << "¿A qué reunión viniste?", "¿A que reunión viniste?", "Reunión", "REUNION" >>

columnas_sino == << ColLlamada, ColCelula, ColVisita >>

NRows(f) == Len(f.rows)

Column(f, c) == [i \in 1..NRows(f) |-> f.rows[i][c]]

\* the positions of seq whose element satisfies keep, a function of the
\* row labels
RECURSIVE Kept(_, _, _)
Kept(index, keep, i) ==
  IF i > Len(index) THEN << >>
  ELSE (IF keep[index[i]] THEN << i >> ELSE << >>) \o Kept(index, keep, i + 1)

\* df[mask]: the rows whose label the mask holds of, in their order, under
\* their labels
BoolIndex(f, mask) ==
  LET k == Kept(f.index, mask, 1)
  IN  [cols |-> f.cols,
       index |-> [j \in 1..Len(k) |-> f.index[k[j]]],
       rows |-> [j \in 1..Len(k) |-> f.rows[k[j]]]]

\* a boolean Series over the rows of f: P's value at each label
Labels(f) == {f.index[i] : i \in 1..NRows(f)}

RowAt(f, l) == f.rows[CHOOSE i \in 1..NRows(f) : f.index[i] = l]

\* str.strip() of a header.  A header is an atomic string here, so the
\* function is tabulated on the padded headers the sheets use
PaddedHeaders ==
  << << "Marca temporal ", ColMarca >>, << " Tú eres: ", ColEdad >> >>

HeaderStrip(h) ==
  IF \E i \in 1..Len(PaddedHeaders) : PaddedHeaders[i][1] = h
  THEN PaddedHeaders[CHOOSE i \in 1..Len(PaddedHeaders) : PaddedHeaders[i][1] = h][2]
  ELSE h

\* df.columns = df.columns.str.strip()
StripColumns(f) ==
  [cols |-> {HeaderStrip(h) : h \in f.cols},
   index |-> f.index,
   rows |-> [i \in 1..NRows(f) |->
               [c \in {HeaderStrip(h) : h \in f.cols} |->
                  f.rows[i][CHOOSE h \in f.cols : HeaderStrip(h) = c]]]]

\* the first name of a priority list that is a column, or "" (None)
RECURSIVE FirstPresent(_, _)
FirstPresent(names, cols) ==
  IF names = << >> THEN ""
  ELSE IF Head(names) \in cols THEN Head(names)
  ELSE FirstPresent(Tail(names), cols)

\* the .str accessor of a column raises AttributeError unless the column
\* holds a text: read_csv gives a column without any text the dtype float64
StrAccessorRaises(f, c) == \A i \in 1..NRows(f) : IsNa(f.rows[i][c])

\* Series.str.strip(): NaN stays NaN
CellStrip(c) == IF IsNa(c) THEN NaN ELSE Cell(StrStrip(Val(c)))

CellTitle(c) == IF IsNa(c) THEN NaN ELSE Cell(StrTitle(Val(c)))

NoEspecificado ==
  << "N", "o", " ", "e", "s", "p", "e", "c", "i", "f", "i", "c", "a", "d", "o" >>

\* Series.fillna(v)
FillNa(c, v) == IF IsNa(c) THEN Cell(v) ELSE c

(***************************************************************************)
(* preprocess_data                                                         *)
(***************************************************************************)
\* lines 85-101: the three passes of pd.to_datetime over "Marca temporal".
\* The first pass overwrites the column, so the later passes read the
\* datetime column (NaT where the first pass failed), not the texts.
ParseMarcaTemporal(raw) ==
  LET n == Len(raw)
      t1 == [i \in 1..n |-> ToDatetime("object", raw[i], FmtFechaHora)]
      t2 == [i \in 1..n |->
               IF IsNa(t1[i]) THEN ToDatetime("datetime64", t1[i], FmtFecha) ELSE t1[i]]
      t3 == [i \in 1..n |->
               IF IsNa(t2[i]) THEN ToDatetime("datetime64", t2[i], DayFirst) ELSE t2[i]]
  IN  IF \E i \in 1..n : IsNa(t1[i])
      THEN (IF \E i \in 1..n : IsNa(t2[i]) THEN t3 ELSE t2)
      ELSE t1

\* the .dt accessors of lines 115-120, of a valid timestamp
DtField(t, name) ==
  CASE name = "year" -> t.year
    [] name = "month" -> t.month
    [] name = "month_name" -> MonthNames[t.month]
    [] name = "week" -> IsoWeek(t)
    [] name = "day_name" -> DayNames[DayOfWeek(t) + 1]
    [] name = "date" -> << t.year, t.month, t.day >>

\* a .dt accessor on a cell: NaN where the timestamp is NaT
Dt(c, name) == IF IsNa(c) THEN NaN ELSE Cell(DtField(Val(c), name))

\* lines 122-130: Es_Fin_Semana, when some timestamp is valid.  A
\* comparison with the NaN day of week of a NaT is False.
EsFinSemana(ts) ==
  LET n == Len(ts)
      tiene_entre_semana == \E i \in 1..n : ~IsNa(ts[i]) /\ DayOfWeek(Val(ts[i])) < 5
  IN  IF tiene_entre_semana
      THEN [i \in 1..n |-> Cell(~IsNa(ts[i]) /\ DayOfWeek(Val(ts[i])) >= 5)]
      ELSE [i \in 1..n |-> Cell(TRUE)]

\* Series.astype(str) of a cell: a missing cell becomes the text nan
AsTypeStr(c) == IF IsNa(c) THEN << "n", "a", "n" >> ELSE Val(c)

ReemplazosSi ==
  << << << "S", "Í" >>, << "S", "I" >> >>,
     << << "S", "Ì" >>, << "S", "I" >> >>,
     << << "S", "I" >>, << "S", "I" >> >>,
     << << "Y", "E", "S" >>, << "S", "I" >> >>,
     << << "Y" >>, << "S", "I" >> >>,
     << << "S" >>, << "S", "I" >> >>,
     << << "1" >>, << "S", "I" >> >>,
     << << "T", "R", "U", "E" >>, << "S", "I" >> >> >>

ReemplazosNo ==
  << << << "N", "O" >>, << "N", "O" >> >>,
     << << "N" >>, << "N", "O" >> >>,
     << << "0" >>, << "N", "O" >> >>,
     << << "F", "A", "L", "S", "E" >>, << "N", "O" >> >>,
     << << "S", "I", "N", " ", "G", "E", "S", "T", "I", "Ó", "N" >>, << "N", "O" >> >>,
     << << "S", "I", "N", " ", "G", "E", "S", "T", "I", "O", "N" >>, << "N", "O" >> >> >>

\* Series.replace(dict) of one value: the value of the key it equals
Replace(s, map) ==
  IF \E i \in 1..Len(map) : map[i][1] = s
  THEN map[CHOOSE i \in 1..Len(map) : map[i][1] = s][2]
  ELSE s

\* the two replacements made on the raw text, the trimming and the
\* upper-casing made last
NormalizeSiNoReemplazoPrimero(c) ==
  Cell(StrUpper(StrStrip(Replace(Replace(AsTypeStr(c), ReemplazosSi), ReemplazosNo))))

\* lines 141-161, one cell of a SI/NO column
NormalizeSiNo(c) ==
  Cell(Replace(Replace(StrUpper(StrStrip(AsTypeStr(c))), ReemplazosSi), ReemplazosNo))

\* line 165
GrupoEdad(c) == CellStrip(c)

\* lines 169-170
Barrio(c) == FillNa(CellTitle(CellStrip(c)), NoEspecificado)

ColumnasFecha == {"Año", "Mes", "Mes_Nombre", "Semana", "Dia_Semana", "Fecha"}

\* the columns lines 81-170 add to the table f0, whose timestamps are ts
ColumnasNuevas(f0, ts, columna_reunion) ==
  (IF columna_reunion # "" THEN {"Reunion"} ELSE {})
    \cup (IF ColMarca \in f0.cols THEN ColumnasFecha ELSE {})
    \cup (IF ColMarca \in f0.cols /\ \E i \in 1..Len(ts) : ~IsNa(ts[i])
          THEN {"Es_Fin_Semana"} ELSE {})
    \cup (IF ColEdad \in f0.cols THEN {"Grupo_Edad"} ELSE {})
    \cup (IF ColBarrio \in f0.cols THEN {"Barrio"} ELSE {})

\* the cell of row i in column k after lines 81-170: ts is "Marca temporal"
\* after lines 85-101, fin is Es_Fin_Semana
Celda(f0, ts, fin, columna_reunion, i, k) ==
  CASE k = "Reunion" /\ columna_reunion # "" -> CellStrip(f0.rows[i][columna_reunion])
    [] k = ColMarca -> ts[i]
    [] k = "Año" /\ ColMarca \in f0.cols -> Dt(ts[i], "year")
    [] k = "Mes" /\ ColMarca \in f0.cols -> Dt(ts[i], "month")
    [] k = "Mes_Nombre" /\ ColMarca \in f0.cols -> Dt(ts[i], "month_name")
    [] k = "Semana" /\ ColMarca \in f0.cols -> Dt(ts[i], "week")
    [] k = "Dia_Semana" /\ ColMarca \in f0.cols -> Dt(ts[i], "day_name")
    [] k = "Fecha" /\ ColMarca \in f0.cols -> Dt(ts[i], "date")
    [] k = "Es_Fin_Semana" /\ ColMarca \in f0.cols /\ (\E j \in 1..Len(ts) : ~IsNa(ts[j])) ->
         fin[i]
    [] \E j \in 1..Len(columnas_sino) : columnas_sino[j] = k -> NormalizeSiNo(f0.rows[i][k])
    [] k = "Grupo_Edad" /\ ColEdad \in f0.cols -> GrupoEdad(f0.rows[i][ColEdad])
    [] k = "Barrio" /\ ColBarrio \in f0.cols -> Barrio(f0.rows[i][ColBarrio])
    [] OTHER -> f0.rows[i][k]

\* lines 65-170 on the table f0 (the headers stripped), which never raise
\* here
Preprocesada(f0, ts, fin, columna_reunion) ==
  [cols |-> f0.cols \cup ColumnasNuevas(f0, ts, columna_reunion),
   index |-> f0.index,
   rows |-> [i \in 1..NRows(f0) |->
               [k \in f0.cols \cup ColumnasNuevas(f0, ts, columna_reunion) |->
                  Celda(f0, ts, fin, columna_reunion, i, k)]]]

\* lines 81, 165, 169: the .str accessors that raise
PreprocessRaises(f0) ==
  \/ FirstPresent(posibles_reuniones, f0.cols) # ""
       /\ StrAccessorRaises(f0, FirstPresent(posibles_reuniones, f0.cols))
  \/ ColEdad \in f0.cols /\ StrAccessorRaises(f0, ColEdad)
  \/ ColBarrio \in f0.cols /\ StrAccessorRaises(f0, ColBarrio)

\* preprocess_data without the copy of line 62: the caller's table is the
\* table the function worked on
preprocess_data_sin_copia(df0) ==
  The({The({The({The({
    [raised |-> IF PreprocessRaises(f0) THEN "AttributeError" ELSE "",
     df |-> out,
     input |-> out,
     columna_lider |-> FirstPresent(posibles_lideres, f0.cols),
     columna_reunion |-> FirstPresent(posibles_reuniones, f0.cols)] :
       out \in {IF PreprocessRaises(f0)
                THEN f0
                ELSE Preprocesada(f0, ts, fin, FirstPresent(posibles_reuniones, f0.cols))}}) :
       fin \in {EsFinSemana(ts)}}) :
       ts \in {IF ColMarca \in f0.cols
               THEN ParseMarcaTemporal(Column(f0, ColMarca))
               ELSE << >>}}) :
       f0 \in {StripColumns(df0)}})

\* lines 60-172: [raised, df, input, columna_lider, columna_reunion].
\* raised is the exception that leaves the function, or ""; input is the
\* caller's table after the call: line 62 works on a copy of it
preprocess_data(df0) ==
  The({The({The({
    [raised |-> IF PreprocessRaises(f0) THEN "AttributeError" ELSE "",
     df |-> IF PreprocessRaises(f0)
            THEN f0
            ELSE Preprocesada(f0, ts, fin, FirstPresent(posibles_reuniones, f0.cols)),
     input |-> df0,
     columna_lider |-> FirstPresent(posibles_lideres, f0.cols),
     columna_reunion |-> FirstPresent(posibles_reuniones, f0.cols)] :
       fin \in {EsFinSemana(ts)}}) :
       ts \in {IF ColMarca \in f0.cols
               THEN ParseMarcaTemporal(Column(f0, ColMarca))
               ELSE << >>}}) :
       f0 \in {StripColumns(df0)}})

(***************************************************************************)
(* The sidebar (lines 215-314): what each widget offers                    *)
(***************************************************************************)
Todos == << "T", "o", "d", "o", "s" >>

Todas == << "T", "o", "d", "a", "s" >>

\* Series.dropna().unique(), as a set
Unique(f, c) == {Val(f.rows[i][c]) : i \in {j \in 1..NRows(f) : ~IsNa(f.rows[j][c])}}

\* lines 219-240: the years the multiselect offers
anios_disponibles(f) == IF "Año" \in f.cols THEN Unique(f, "Año") ELSE {}

\* lines 243-251: the months the two selectboxes offer
meses_disponibles(f) ==
  IF "Mes" \in f.cols THEN {m \in Unique(f, "Mes") : 1 <= m /\ m <= 12} ELSE {}

\* lines 296-300
grupos(f) == {Todos} \cup (IF "Grupo_Edad" \in f.cols THEN Unique(f, "Grupo_Edad") ELSE {})

\* lines 303-307
lideres(f, col_lider) ==
  {Todos} \cup (IF col_lider # "" THEN Unique(f, col_lider) ELSE {})

\* lines 310-314
reuniones(f, col_reunion) ==
  {Todas} \cup (IF col_reunion # "" THEN Unique(f, "Reunion") ELSE {})

\* every selection the widgets allow on the table f
Selecciones(f, col_lider, col_reunion) ==
  LET meses == meses_disponibles(f)
      rangos == {[usar |-> FALSE, inicio |-> 1, fin |-> 12]}
                  \cup {[usar |-> TRUE, inicio |-> a, fin |-> b] : a \in meses, b \in meses}
  IN  {[anios_seleccionados |-> a,
        usar_filtro_meses |-> r.usar,
        mes_inicio_num |-> r.inicio,
        mes_fin_num |-> r.fin,
        grupo_seleccionado |-> g,
        lider_seleccionado |-> l,
        reunion_seleccionada |-> u] :
          a \in SUBSET anios_disponibles(f), r \in rangos, g \in grupos(f),
          l \in lideres(f, col_lider), u \in reuniones(f, col_reunion)}

(***************************************************************************)
(* The filters (lines 317-347)                                             *)
(***************************************************************************)
\* mask_anios_seleccionados alone, without mask_sin_fecha
MaskAniosSinNulos(f, anios) ==
  [l \in Labels(f) |->
     ~IsNa(RowAt(f, l)["Año"]) /\ Val(RowAt(f, l)["Año"]) \in anios]

\* lines 322-323: mask_sin_fecha | mask_anios_seleccionados, on df
MaskAnios(f, anios) ==
  [l \in Labels(f) |->
     IsNa(RowAt(f, l)["Año"]) \/ Val(RowAt(f, l)["Año"]) \in anios]

\* the month mask with the two bounds joined by "and" whatever their order
MaskMesesConjuncion(f, inicio, fin) ==
  [l \in Labels(f) |->
     LET mes == RowAt(f, l)["Mes"]
     IN  IsNa(mes) \/ (Val(mes) >= inicio /\ Val(mes) <= fin)]

\* lines 328-333: mask_sin_fecha | mask_meses, on df
MaskMeses(f, inicio, fin) ==
  [l \in Labels(f) |->
     LET mes == RowAt(f, l)["Mes"]
     IN  \/ IsNa(mes)
         \/ IF inicio <= fin
            THEN Val(mes) >= inicio /\ Val(mes) <= fin
            ELSE Val(mes) >= inicio \/ Val(mes) <= fin]

\* df[c] == v: a missing cell equals nothing
MaskEq(f, c, v) ==
  [l \in Labels(f) |-> ~IsNa(RowAt(f, l)[c]) /\ Val(RowAt(f, l)[c]) = v]

\* the mask that keeps every row
MaskAll(f) == [l \in Labels(f) |-> TRUE]

\* line 320
FiltroAnios(f, sel) ==
  IF sel.anios_seleccionados # {} /\ "Año" \in f.cols
  THEN MaskAnios(f, sel.anios_seleccionados)
  ELSE MaskAll(f)

\* line 327
FiltroMeses(f, sel) ==
  IF /\ sel.usar_filtro_meses
     /\ "Mes" \in f.cols
     /\ ~(\A i \in 1..NRows(f) : IsNa(f.rows[i]["Mes"]))
  THEN MaskMeses(f, sel.mes_inicio_num, sel.mes_fin_num)
  ELSE MaskAll(f)

\* line 338
FiltroGrupo(f, sel) ==
  IF sel.grupo_seleccionado # Todos /\ "Grupo_Edad" \in f.cols
  THEN MaskEq(f, "Grupo_Edad", sel.grupo_seleccionado)
  ELSE MaskAll(f)

\* line 342
FiltroLider(f, sel, col_lider) ==
  IF sel.lider_seleccionado # Todos /\ col_lider # ""
  THEN MaskEq(f, col_lider, sel.lider_seleccionado)
  ELSE MaskAll(f)

\* line 346
FiltroReunion(f, sel, col_reunion) ==
  IF sel.reunion_seleccionada # Todas /\ col_reunion # ""
  THEN MaskEq(f, "Reunion", sel.reunion_seleccionada)
  ELSE MaskAll(f)

\* lines 317-347: df_filtrado.  Each filter keeps the rows of the
\* filtered table that its mask holds of, so the result is the rows of df
\* that every mask holds of
Filtrar(f, sel, col_lider, col_reunion) ==
  BoolIndex(f, [l \in Labels(f) |->
                  /\ FiltroAnios(f, sel)[l]
                  /\ FiltroMeses(f, sel)[l]
                  /\ FiltroGrupo(f, sel)[l]
                  /\ FiltroLider(f, sel, col_lider)[l]
                  /\ FiltroReunion(f, sel, col_reunion)[l]])

(***************************************************************************)
(* The aggregates (lines 368-376, 390-409, 456-472, 544-560).  A float is  *)
(* [kind, num, den]: the finite value num/den, nan or inf.                 *)
(***************************************************************************)
Finite(num, den) == [kind |-> "finite", num |-> num, den |-> den]

FloatNaN == [kind |-> "nan", num |-> 0, den |-> 1]

FloatInf == [kind |-> "inf", num |-> 0, den |-> 1]

\* a / b * 100 on integer columns: a division by zero gives inf, and nan
\* for 0 / 0
PorCien(a, b) ==
  IF b = 0 THEN (IF a = 0 THEN FloatNaN ELSE FloatInf) ELSE Finite(a * 100, b)

RoundHalfEven(n, d) ==
  LET q == n \div d
      r == n % d
  IN  IF 2 * r < d THEN q
      ELSE IF 2 * r > d THEN q + 1
      ELSE IF q % 2 = 0 THEN q ELSE q + 1

\* Series.round(1): nan and inf stay
Round1(x) ==
  IF x.kind = "finite" THEN Finite(RoundHalfEven(x.num * 10, x.den), 10) ELSE x

SI == << "S", "I" >>

\* the rows of g, by position, whose cell in column c is the text v
RowsEq(g, c, v) == {i \in 1..NRows(g) : ~IsNa(g.rows[i][c]) /\ Val(g.rows[i][c]) = v}

\* (df_filtrado.get(c, pd.Series()) == "SI").sum()
TotalSi(g, c) == IF c \in g.cols THEN Cardinality(RowsEq(g, c, SI)) ELSE 0

\* lines 374-376
Pct(total, total_personas) ==
  IF total_personas > 0 THEN PorCien(total, total_personas) ELSE Finite(0, 1)

\* lines 368-376
Metricas(g) ==
  LET total_personas == NRows(g)
      total_llamadas == TotalSi(g, ColLlamada)
      total_celula == TotalSi(g, ColCelula)
      total_visita == TotalSi(g, ColVisita)
  IN  [total_personas |-> total_personas,
       total_llamadas |-> total_llamadas,
       total_celula |-> total_celula,
       total_visita |-> total_visita,
       pct_llamadas |-> Pct(total_llamadas, total_personas),
       pct_celula |-> Pct(total_celula, total_personas),
       pct_visita |-> Pct(total_visita, total_personas)]

\* groupby(keys) raises KeyError when a key is no column
GroupByRaises(g, keys) == \E k \in keys : k \notin g.cols

\* lines 392-393: groupby(["Mes", "Mes_Nombre"]).size(), sorted by Mes; a
\* row with a missing key is in no group
RECURSIVE MensualDesde(_, _)
MensualDesde(g, m) ==
  IF m > 12 THEN << >>
  ELSE LET grupo == {i \in 1..NRows(g) :
                       /\ ~IsNa(g.rows[i]["Mes"]) /\ Val(g.rows[i]["Mes"]) = m
                       /\ ~IsNa(g.rows[i]["Mes_Nombre"])}
       IN  (IF grupo = {} THEN << >>
            ELSE << [Mes |-> m,
                     Mes_Nombre |-> Val(g.rows[CHOOSE i \in grupo : TRUE]["Mes_Nombre"]),
                     Nuevos |-> Cardinality(grupo)] >>)
             \o MensualDesde(g, m + 1)

\* groupby(..., dropna=False): the rows without a month make one more group
MensualConNulos(g) ==
  MensualDesde(g, 1)
    \o (IF \E i \in 1..NRows(g) : IsNa(g.rows[i]["Mes"])
        THEN << [Mes |-> 0,
                 Mes_Nombre |-> << "n", "a", "n" >>,
                 Nuevos |-> Cardinality({i \in 1..NRows(g) : IsNa(g.rows[i]["Mes"])})] >>
        ELSE << >>)

Mensual(g) == MensualDesde(g, 1)

\* lines 408-409: groupby(["Año", "Semana"]).size() and the label Periodo.
\* The year is written as a float ("2024.0") when the column "Año" of the
\* table holds a NaN, which makes it a float column
Semanal(f, g) ==
  LET con_fecha == {i \in 1..NRows(g) :
                      ~IsNa(g.rows[i]["Año"]) /\ ~IsNa(g.rows[i]["Semana"])}
      claves == {<< Val(g.rows[i]["Año"]), Val(g.rows[i]["Semana"]) >> : i \in con_fecha}
      decimal == \E i \in 1..NRows(f) : IsNa(f.rows[i]["Año"])
  IN  {[Anio |-> k[1],
        Semana |-> k[2],
        Nuevos |-> Cardinality({i \in con_fecha :
                     Val(g.rows[i]["Año"]) = k[1] /\ Val(g.rows[i]["Semana"]) = k[2]}),
        Periodo |-> [anio |-> k[1], decimal |-> decimal, semana |-> k[2], ancho |-> 2]] :
          k \in claves}

\* lines 460-472 and 548-560: groupby(c).agg(...) and the percentages, one
\* record for each value of column c
Stats(g, c) ==
  {LET grupo == RowsEq(g, c, v)
       nuevos == Cardinality({i \in grupo : ~IsNa(g.rows[i][ColNombre])})
       llamadas == Cardinality(grupo \cap RowsEq(g, ColLlamada, SI))
       celula == Cardinality(grupo \cap RowsEq(g, ColCelula, SI))
       visitas == Cardinality(grupo \cap RowsEq(g, ColVisita, SI))
   IN  [Grupo |-> v,
        Nuevos |-> nuevos,
        Llamadas |-> llamadas,
        Celula |-> celula,
        Visitas |-> visitas,
        PctLlamadas |-> Round1(PorCien(llamadas, nuevos)),
        PctCelula |-> Round1(PorCien(celula, nuevos)),
        PctVisitas |-> Round1(PorCien(visitas, nuevos))] :
     v \in Unique(g, c)}

StatsCols == {ColNombre, ColLlamada, ColCelula, ColVisita}

\* Series.value_counts(): one count for each value of column c, a missing
\* cell counted nowhere
ValueCounts(g, c) ==
  {[valor |-> v, cantidad |-> Cardinality(RowsEq(g, c, v))] : v \in Unique(g, c)}

TopBarrios == 10

\* .head(n) of counts sorted from the largest: n of the largest
HeadCounts(vc, n) ==
  IF Cardinality(vc) <= n THEN vc
  ELSE CHOOSE t \in SUBSET vc :
         /\ Cardinality(t) = n
         /\ \A a \in t : \A b \in vc \ t : a.cantidad >= b.cantidad

\* line 521
BarriosTop(g) == HeadCounts(ValueCounts(g, "Barrio"), TopBarrios)

(***************************************************************************)
(* The run of the script                                                   *)
(***************************************************************************)
VARIABLES
  sheet,            \* the table behind sheet_url, as pd.read_csv reads it
  pc,               \* the place of the run in the script
  df_cargado,       \* load_data's first result: None or the table
  error,            \* load_data's second result: None or str(e)
  mensaje,          \* what the run surfaced before st.stop(), or ""
  raised,           \* the exception that ended the run, or ""
  df,               \* df after line 174
  columna_lider,
  columna_reunion,
  sel,              \* the values of the sidebar's widgets
  df_filtrado,
  metricas,
  mensual,
  semanal,
  lideres_stats,
  reunion_stats,
  barrios_top,
  corrida,          \* the number of the run in the session
  reloj,            \* the time, in seconds
  cache_load,       \* st.cache_data(ttl=300) of load_data: None or an entry
  cache_preprocess, \* st.cache_data of preprocess_data: its entries
  solicitudes       \* the reads of sheet_url made in the run, in order

vars ==
  << sheet, pc, df_cargado, error, mensaje, raised, df, columna_lider,
     columna_reunion, sel, df_filtrado, metricas, mensual, semanal,
     lideres_stats, reunion_stats, barrios_top, corrida, reloj, cache_load,
     cache_preprocess, solicitudes >>

None == << >>

\* what a run has not bound yet
Unbound == << >>

\* the messages str(e) of the exceptions pd.read_csv raises
Excepciones == {"", "HTTP Error 404: Not Found"}

\* lines 24-30: lectura is what pd.read_csv(url) did, [raised, tabla, str_e]
load_data(lectura) ==
  IF lectura.raised
  THEN << None, Cell(lectura.str_e) >>
  ELSE << Cell(lectura.tabla), None >>

\* what pd.read_csv(sheet_url) can do when the sheet is the table t
Lecturas(t) ==
  {[raised |-> FALSE, tabla |-> t, str_e |-> ""]}
    \cup {[raised |-> TRUE, tabla |-> t, str_e |-> e] : e \in Excepciones}

\* line 23: the seconds an entry of load_data's cache lives
ttl == 300

\* an entry of a cache: the value the function returned, and when
Entrada(valor, ahora) == Cell([valor |-> valor, guardado |-> ahora])

\* the cache of load_data holds an entry that has not expired at ahora
Vigente(cache, ahora) == ~IsNa(cache) /\ ahora < Val(cache).guardado + ttl

\* lines 23 and 45: the cached value if an entry is alive; otherwise the
\* function runs, and what it returns, a failure too, is stored
CargarDatos ==
  /\ pc = "cargar"
  /\ IF Vigente(cache_load, reloj)
     THEN /\ df_cargado' = Val(cache_load).valor[1]
          /\ error' = Val(cache_load).valor[2]
          /\ UNCHANGED << cache_load, solicitudes >>
     ELSE \E lectura \in Lecturas(sheet) :
            /\ df_cargado' = load_data(lectura)[1]
            /\ error' = load_data(lectura)[2]
            /\ cache_load' = Entrada(load_data(lectura), reloj)
            /\ solicitudes' = Append(solicitudes, "load_data")
  /\ pc' = "verificar"
  /\ UNCHANGED << sheet, mensaje, raised, df, columna_lider, columna_reunion, sel,
                  df_filtrado, metricas, mensual, semanal, lideres_stats, reunion_stats,
                  barrios_top, corrida, reloj, cache_preprocess >>

\* the truth value of load_data's error: None and "" are false
Truthy(e) == ~IsNa(e) /\ Val(e) # ""

\* DataFrame.empty
Empty(f) == NRows(f) = 0 \/ f.cols = {}

\* lines 47-54: "st.error", "st.warning" or "" (the run goes on)
Verificar(d, e) ==
  IF Truthy(e) THEN "st.error"
  ELSE IF IsNa(d) \/ Empty(Val(d)) THEN "st.warning"
  ELSE ""

VerificarCarga ==
  /\ pc = "verificar"
  /\ mensaje' = Verificar(df_cargado, error)
  /\ pc' = IF Verificar(df_cargado, error) # "" THEN "detenido" ELSE "preprocesar"
  /\ UNCHANGED << sheet, df_cargado, error, raised, df, columna_lider, columna_reunion,
                  sel, df_filtrado, metricas, mensual, semanal, lideres_stats,
                  reunion_stats, barrios_top, corrida, reloj, cache_load,
                  cache_preprocess, solicitudes >>

\* the value st.cache_data holds for the argument df0, or None
Guardado(cache, df0) ==
  IF \E e \in cache : e.entrada = df0
  THEN Cell((CHOOSE e \in cache : e.entrada = df0).valor)
  ELSE None

\* lines 59 and 174: the cached value if the table has an entry, which
\* never expires; otherwise the function runs and what it returns is stored
Preprocesar ==
  /\ pc = "preprocesar"
  /\ \E r \in {IF IsNa(Guardado(cache_preprocess, Val(df_cargado)))
                THEN preprocess_data(Val(df_cargado))
                ELSE Val(Guardado(cache_preprocess, Val(df_cargado)))} :
         /\ cache_preprocess' =
              IF r.raised = "" /\ IsNa(Guardado(cache_preprocess, Val(df_cargado)))
              THEN cache_preprocess
                     \cup {[entrada |-> Val(df_cargado), valor |-> r, guardado |-> reloj]}
              ELSE cache_preprocess
         /\ raised' = r.raised
         /\ pc' = IF r.raised # "" THEN "error" ELSE "sidebar"
         /\ df_cargado' = Cell(r.input)
         /\ df' = IF r.raised # "" THEN df ELSE r.df
         /\ columna_lider' = IF r.raised # "" THEN columna_lider ELSE r.columna_lider
         /\ columna_reunion' = IF r.raised # "" THEN columna_reunion ELSE r.columna_reunion
  /\ UNCHANGED << sheet, error, mensaje, sel, df_filtrado, metricas, mensual, semanal,
                  lideres_stats, reunion_stats, barrios_top, corrida, reloj, cache_load,
                  solicitudes >>

\* lines 215-314
Sidebar ==
  /\ pc = "sidebar"
  /\ \E s \in Selecciones(df, columna_lider, columna_reunion) : sel' = s
  /\ pc' = "filtrar"
  /\ UNCHANGED << sheet, df_cargado, error, mensaje, raised, df, columna_lider,
                  columna_reunion, df_filtrado, metricas, mensual, semanal,
                  lideres_stats, reunion_stats, barrios_top, corrida, reloj, cache_load,
                  cache_preprocess, solicitudes >>

\* lines 317-376
FiltrarYResumir ==
  /\ pc = "filtrar"
  /\ df_filtrado' = Filtrar(df, sel, columna_lider, columna_reunion)
  /\ metricas' = Metricas(df_filtrado')
  /\ pc' = "temporal"
  /\ UNCHANGED << sheet, df_cargado, error, mensaje, raised, df, columna_lider,
                  columna_reunion, sel, mensual, semanal, lideres_stats, reunion_stats,
                  barrios_top, corrida, reloj, cache_load, cache_preprocess, solicitudes >>

\* lines 390-409
EvolucionTemporal ==
  /\ pc = "temporal"
  /\ IF GroupByRaises(df_filtrado, {"Mes", "Mes_Nombre"})
     THEN /\ raised' = "KeyError"
          /\ pc' = "error"
          /\ UNCHANGED << mensual, semanal >>
     ELSE /\ mensual' = Mensual(df_filtrado)
          /\ IF GroupByRaises(df_filtrado, {"Año", "Semana"})
             THEN /\ raised' = "KeyError"
                  /\ pc' = "error"
                  /\ UNCHANGED semanal
             ELSE /\ semanal' = Semanal(df, df_filtrado)
                  /\ pc' = "analisis"
                  /\ UNCHANGED raised
  /\ UNCHANGED << sheet, df_cargado, error, mensaje, df, columna_lider, columna_reunion,
                  sel, df_filtrado, metricas, lideres_stats, reunion_stats, barrios_top,
                  corrida, reloj, cache_load, cache_preprocess, solicitudes >>

\* lines 456-472, 518-521 and 544-560
Analisis ==
  /\ pc = "analisis"
  /\ IF columna_lider # "" /\ GroupByRaises(df_filtrado, {columna_lider} \cup StatsCols)
     THEN /\ raised' = "KeyError"
          /\ pc' = "error"
          /\ UNCHANGED << lideres_stats, reunion_stats, barrios_top >>
     ELSE /\ lideres_stats' = IF columna_lider # ""
                              THEN Stats(df_filtrado, columna_lider)
                              ELSE lideres_stats
          /\ barrios_top' = IF "Barrio" \in df_filtrado.cols
                            THEN BarriosTop(df_filtrado)
                            ELSE barrios_top
          /\ IF columna_reunion # "" /\ GroupByRaises(df_filtrado, {"Reunion"} \cup StatsCols)
             THEN /\ raised' = "KeyError"
                  /\ pc' = "error"
                  /\ UNCHANGED reunion_stats
             ELSE /\ reunion_stats' = IF columna_reunion # ""
                                      THEN Stats(df_filtrado, "Reunion")
                                      ELSE reunion_stats
                  /\ pc' = "fin"
                  /\ UNCHANGED raised
  /\ UNCHANGED << sheet, df_cargado, error, mensaje, df, columna_lider, columna_reunion,
                  sel, df_filtrado, metricas, mensual, semanal, corrida, reloj,
                  cache_load, cache_preprocess, solicitudes >>

\* lines 632-658: the expander's body runs in every run; line 638 reads
\* sheet_url again, outside load_data and its cache, and outside any try
Depurar ==
  /\ pc = "fin"
  /\ IF Empty(df)
     THEN /\ pc' = "terminado"
          /\ UNCHANGED << raised, solicitudes >>
     ELSE IF ColMarca \notin df.cols
          THEN /\ raised' = "KeyError"
               /\ pc' = "error"
               /\ UNCHANGED solicitudes
          ELSE \E lectura \in Lecturas(sheet) :
                 /\ solicitudes' = Append(solicitudes, "pd.read_csv")
                 /\ raised' = IF lectura.raised THEN "Exception" ELSE ""
                 /\ pc' = IF lectura.raised THEN "error" ELSE "terminado"
  /\ UNCHANGED << sheet, df_cargado, error, mensaje, df, columna_lider, columna_reunion,
                  sel, df_filtrado, metricas, mensual, semanal, lideres_stats,
                  reunion_stats, barrios_top, corrida, reloj, cache_load,
                  cache_preprocess >>

\* one run of the script
Next ==
  \/ CargarDatos
  \/ VerificarCarga
  \/ Preprocesar
  \/ Sidebar
  \/ FiltrarYResumir
  \/ EvolucionTemporal
  \/ Analisis
  \/ Depurar

\* the state of a run that starts on the table t
InitOn(t) ==
  /\ sheet = t
  /\ pc = "cargar"
  /\ df_cargado = None
  /\ error = None
  /\ mensaje = ""
  /\ raised = ""
  /\ df = Unbound
  /\ columna_lider = ""
  /\ columna_reunion = ""
  /\ sel = Unbound
  /\ df_filtrado = Unbound
  /\ metricas = Unbound
  /\ mensual = Unbound
  /\ semanal = Unbound
  /\ lideres_stats = Unbound
  /\ reunion_stats = Unbound
  /\ barrios_top = Unbound
  /\ corrida = 1
  /\ reloj = 0
  /\ cache_load = None
  /\ cache_preprocess = {}
  /\ solicitudes = << >>

(***************************************************************************)
(* The sheets of the runs checked: texts, rows, tables                     *)
(***************************************************************************)
TxtEnero == Cell(<< "1", "5", "/", "0", "1", "/", "2", "0", "2", "4", " ", "1", "0", ":", "0", "0", ":", "0", "0" >>)

TxtInvalida == Cell(<< "i", "n", "v", "a", "l", "i", "d", "-", "d", "a", "t", "e" >>)

TxtSoloFecha == Cell(<< "2", "0", "/", "0", "2", "/", "2", "0", "2", "4" >>)

TxtDiciembre == Cell(<< "3", "0", "/", "1", "2", "/", "2", "0", "2", "3", " ", "1", "8", ":", "3", "0", ":", "0", "0" >>)

TxtJunio == Cell(<< "1", "5", "/", "0", "6", "/", "2", "0", "2", "4", " ", "1", "0", ":", "0", "0", ":", "0", "0" >>)

TxtIso == Cell(<< "2", "0", "2", "4", "-", "0", "3", "-", "0", "5" >>)

TxtJoven == Cell(<< " ", "J", "o", "v", "e", "n" >>)

TxtAdulto == Cell(<< "A", "d", "u", "l", "t", "o" >>)

TxtSi == Cell(<< "S", "í" >>)

TxtNo == Cell(<< "n", "o" >>)

TxtSinGestion == Cell(<< "s", "i", "n", " ", "g", "e", "s", "t", "i", "ó", "n" >>)

TxtMaybe == Cell(<< "m", "a", "y", "b", "e" >>)

ColCelular == "No. de Celular"

ColLider == posibles_lideres[2]

ColReunion == posibles_reuniones[3]

Opcionales ==
  {ColMarca, ColNombre, ColEdad, ColBarrio, ColLlamada, ColCelula, ColVisita,
   ColLider, ColReunion}

Todas_Columnas == Opcionales \cup {ColCelular}

\* a record of the form, every field filled in
FilaLimpia ==
  [c \in Todas_Columnas |->
     CASE c = ColMarca -> TxtEnero
       [] c = ColNombre -> Cell(<< "A", "n", "a" >>)
       [] c = ColEdad -> TxtJoven
       [] c = ColBarrio -> Cell(<< " ", "e", "l", " ", "c", "e", "n", "t", "r", "o" >>)
       [] c = ColLlamada -> TxtSi
       [] c = ColCelula -> TxtNo
       [] c = ColVisita -> TxtSinGestion
       [] c = ColLider -> Cell(<< "L", "1" >>)
       [] c = ColReunion -> Cell(<< "R", "1", " " >>)
       [] OTHER -> Cell(<< "3", "0", "0" >>)]

\* a record with an unparseable date, unrecognized SI/NO text and every
\* other optional field left empty
FilaSucia ==
  [c \in Todas_Columnas |->
     CASE c = ColMarca -> TxtInvalida
       [] c = ColLlamada -> TxtMaybe
       [] c = ColCelular -> Cell(<< "3", "0", "1" >>)
       [] OTHER -> NaN]

\* the row r with the cells of v in place of its own
Con(r, v) == [c \in DOMAIN r |-> IF c \in DOMAIN v THEN v[c] ELSE r[c]]

\* the tables of at most n rows drawn from filas, with the columns cols
Tablas(cols, filas, n) ==
  {[cols |-> cols,
    index |-> [i \in 1..k |-> i],
    rows |-> [i \in 1..k |-> [c \in cols |-> r[i][c]]]] :
      <<k, r>> \in UNION {{<<m, q>> : q \in [1..m -> filas]} : m \in 0..n}}

\* the table t under padded headers
Relleno(t) ==
  LET pad(c) == IF \E i \in 1..Len(PaddedHeaders) : PaddedHeaders[i][2] = c
                THEN PaddedHeaders[CHOOSE i \in 1..Len(PaddedHeaders) : PaddedHeaders[i][2] = c][1]
                ELSE c
  IN  [cols |-> {pad(c) : c \in t.cols},
       index |-> t.index,
       rows |-> [i \in 1..Len(t.rows) |->
                   [h \in {pad(c) : c \in t.cols} |-> t.rows[i][HeaderStrip(h)]]]]

MaxFilas == 2

\* every subset of the optional columns, clean and dirty records
Hojas ==
  LET sub == UNION {Tablas(Todas_Columnas \ ausentes, {FilaLimpia, FilaSucia}, MaxFilas) :
                      ausentes \in SUBSET Opcionales}
  IN  sub \cup {Relleno(t) : t \in Tablas(Todas_Columnas, {FilaLimpia}, MaxFilas)}

Init == \E t \in Hojas : InitOn(t)

Spec == Init /\ [][Next]_vars

\* records that differ in their date and their age group: every column
\* the time filters and the age filter read
ColumnasFechas ==
  {ColCelular, ColMarca, ColNombre, ColEdad, ColLlamada, ColCelula, ColVisita}

FilasFechas ==
  {Con(FilaLimpia, (ColMarca :> f[1]) @@ (ColEdad :> f[2])) :
     f \in {<< TxtEnero, TxtJoven >>, << TxtInvalida, TxtAdulto >>,
            << TxtSoloFecha, TxtJoven >>, << TxtDiciembre, TxtAdulto >>,
            << TxtJunio, TxtJoven >>, << TxtIso, TxtAdulto >>}}

MaxFilasFechas == 3

HojasFechas == Tablas(ColumnasFechas, FilasFechas, MaxFilasFechas)

InitFechas == \E t \in HojasFechas : InitOn(t)

SpecFechas == InitFechas /\ [][Next]_vars

\* records that differ in their leader, their name and their call flag
ColumnasAgregados ==
  {ColCelular, ColMarca, ColNombre, ColLlamada, ColCelula, ColVisita, ColLider,
   ColReunion}

FilasAgregados ==
  {Con(FilaLimpia,
       (ColMarca :> TxtInvalida) @@ (ColLider :> f[1]) @@ (ColNombre :> f[2])
         @@ (ColLlamada :> f[3])) :
     f \in {Cell(<< "L", "1" >>), Cell(<< "L", "2" >>)}
             \X {Cell(<< "A", "n", "a" >>), NaN}
             \X {TxtSi, TxtNo}}

MaxFilasAgregados == 2

HojasAgregados == Tablas(ColumnasAgregados, FilasAgregados, MaxFilasAgregados)

InitAgregados == \E t \in HojasAgregados : InitOn(t)

SpecAgregados == InitAgregados /\ [][Next]_vars

\* one record whose call flag is any text of the sheet's alphabet, a
\* sample text or missing
ColumnasSiNo == {ColCelular, ColMarca, ColNombre, ColLlamada}

Alfabeto == {" ", "s", "S", "i", "í", "Í", "n", "o"}

MaxLenSiNo == 3

Textos(n) == UNION {[1..k -> Alfabeto] : k \in 1..n}

CeldasSiNo ==
  {Cell(t) : t \in Textos(MaxLenSiNo)} \cup {NaN, TxtSinGestion, TxtMaybe}

HojasSiNo ==
  Tablas(ColumnasSiNo,
         {Con(FilaLimpia, (ColMarca :> TxtInvalida) @@ (ColLlamada :> c)) : c \in CeldasSiNo},
         1)

InitSiNo == \E t \in HojasSiNo : InitOn(t)

SpecSiNo == InitSiNo /\ [][Next]_vars

\* records that differ in their neighborhood
ColumnasBarrio == {ColCelular, ColMarca, ColNombre, ColBarrio}

TxtCentro == Cell(<< " ", "e", "l", " ", "c", "e", "n", "t", "r", "o" >>)

TxtCENTRO == Cell(<< "E", "L", " ", "C", "E", "N", "T", "R", "O", " " >>)

TxtEspacios == Cell(<< " ", " " >>)

FilasBarrio ==
  {Con(FilaLimpia, (ColBarrio :> b)) : b \in {TxtCentro, TxtCENTRO, TxtEspacios, NaN}}

MaxFilasBarrio == 3

HojasBarrio == Tablas(ColumnasBarrio, FilasBarrio, MaxFilasBarrio)

InitBarrio == \E t \in HojasBarrio : InitOn(t)

SpecBarrio == InitBarrio /\ [][Next]_vars

(***************************************************************************)
(* A session: the runs of the script one after the other, each started by  *)
(* an interaction of the user, with the caches of st.cache_data kept from  *)
(* one run to the next                                                     *)
(***************************************************************************)
MaxCorridas == 3

\* the seconds between the start of a run and the start of the next
Esperas == {60, ttl}

\* a rerun, lines 1-42: every name of the script is bound anew; a click on
\* "Actualizar datos" (line 41) empties the caches of st.cache_data (line 42)
NuevaCorrida ==
  /\ pc \in {"detenido", "error", "terminado"}
  /\ corrida < MaxCorridas
  /\ corrida' = corrida + 1
  /\ \E espera \in Esperas, boton \in BOOLEAN :
       /\ reloj' = reloj + espera
       /\ cache_load' = IF boton THEN None ELSE cache_load
       /\ cache_preprocess' = IF boton THEN {} ELSE cache_preprocess
  /\ pc' = "cargar"
  /\ df_cargado' = None
  /\ error' = None
  /\ mensaje' = ""
  /\ raised' = ""
  /\ df' = Unbound
  /\ columna_lider' = ""
  /\ columna_reunion' = ""
  /\ sel' = Unbound
  /\ df_filtrado' = Unbound
  /\ metricas' = Unbound
  /\ mensual' = Unbound
  /\ semanal' = Unbound
  /\ lideres_stats' = Unbound
  /\ reunion_stats' = Unbound
  /\ barrios_top' = Unbound
  /\ solicitudes' = << >>
  /\ UNCHANGED sheet

NextSesion == Next \/ NuevaCorrida

HojasSesion == Tablas({ColCelular, ColMarca, ColNombre}, {FilaLimpia}, 1)

InitSesion == \E t \in HojasSesion : InitOn(t)

SpecSesion == InitSesion /\ [][NextSesion]_vars

(***************************************************************************)
(* Properties of the runs                                                  *)
(***************************************************************************)
\* the run has the table of line 174
Procesado ==
  \/ pc \in {"sidebar", "filtrar", "temporal", "analisis", "fin"}
  \/ pc = "error" /\ raised = "KeyError"

\* the run has df_filtrado and the totals of lines 368-376
Filtrado ==
  \/ pc \in {"temporal", "analisis", "fin"}
  \/ pc = "error" /\ raised = "KeyError"

\* the run has the monthly and the weekly series
Agrupado == pc \in {"analisis", "fin"}

\* the rows of f, by label, that have a timestamp
ConFecha(f) == {l \in Labels(f) : ~IsNa(RowAt(f, l)[ColMarca])}

\* the rows of df, by label, that the filters other than the one on column
\* c keep
PasaOtros(l, c) ==
  /\ c = "Año" \/ FiltroAnios(df, sel)[l]
  /\ c = "Mes" \/ FiltroMeses(df, sel)[l]
  /\ FiltroGrupo(df, sel)[l]
  /\ FiltroLider(df, sel, columna_lider)[l]
  /\ FiltroReunion(df, sel, columna_reunion)[l]

\* C1: a timestamp text that the first format (day/month/year
\* hour:minute:second) parses is the timestamp of its record; a text that
\* the first format does not parse and the second format (day/month/year)
\* parses is parsed by the second format: it has a timestamp, that of the
\* second format
C1_SegundoFormato ==
  (Procesado /\ ColMarca \in sheet.cols) =>
    \A i \in 1..NRows(sheet) :
      \A t1 \in {ToDatetime("object", sheet.rows[i][ColMarca], FmtFechaHora)} :
        \A t2 \in {ToDatetime("object", sheet.rows[i][ColMarca], FmtFecha)} :
          /\ ~IsNa(t1) => df.rows[i][ColMarca] = t1
          /\ (IsNa(t1) /\ ~IsNa(t2)) => df.rows[i][ColMarca] = t2

C3_FiltroAnios ==
  (Filtrado /\ "Año" \in df.cols) =>
    \A l \in Labels(df) :
      l \in Labels(df_filtrado) <=>
        /\ \/ IsNa(RowAt(df, l)[ColMarca])
           \/ Val(RowAt(df, l)["Año"]) \in sel.anios_seleccionados
        /\ PasaOtros(l, "Año")

\* C3: under a selection of one year or more, a record survives the year
\* filter exactly when its year is one of the selected years or it has no
\* timestamp; under the empty selection every record survives it
C3_FiltroAniosNoVacio ==
  (Filtrado /\ "Año" \in df.cols) =>
    \A l \in Labels(df) :
      l \in Labels(df_filtrado) <=>
        /\ \/ sel.anios_seleccionados = {}
           \/ IsNa(RowAt(df, l)[ColMarca])
           \/ Val(RowAt(df, l)["Año"]) \in sel.anios_seleccionados
        /\ PasaOtros(l, "Año")

\* some years selected: a dated record of another year is dropped, a dated
\* record of a selected year and a record without timestamp are kept
C3_Witness ==
  /\ Filtrado
  /\ "Año" \in df.cols
  /\ sel.anios_seleccionados # {}
  /\ \E l \in ConFecha(df) : l \notin Labels(df_filtrado) /\ PasaOtros(l, "Año")
  /\ \E l \in ConFecha(df) : l \in Labels(df_filtrado)
  /\ \E l \in Labels(df) \ ConFecha(df) : l \in Labels(df_filtrado)

\* the value of the month condition of a record of month m
EnRango(m, inicio, fin) ==
  IF inicio <= fin THEN inicio <= m /\ m <= fin ELSE m >= inicio \/ m <= fin

\* C4: with the month-range filter enabled, a record survives it exactly
\* when it has no timestamp or its month is in the range (from start to end
\* when start <= end, at or after start or at or before end otherwise);
\* with the filter disabled, the filtered table is the same for every start
\* and end
C4_FiltroMeses ==
  /\ (Filtrado /\ "Mes" \in df.cols /\ sel.usar_filtro_meses) =>
       \A l \in Labels(df) :
         l \in Labels(df_filtrado) <=>
           /\ \/ IsNa(RowAt(df, l)[ColMarca])
              \/ EnRango(Val(RowAt(df, l)["Mes"]), sel.mes_inicio_num, sel.mes_fin_num)
           /\ PasaOtros(l, "Mes")
  /\ (pc = "temporal" /\ ~sel.usar_filtro_meses) =>
       \A a \in 1..12, b \in 1..12 :
         Filtrar(df, [sel EXCEPT !.mes_inicio_num = a, !.mes_fin_num = b],
                 columna_lider, columna_reunion) = df_filtrado

\* a range that wraps around the end of the year: a record at or after
\* its start and one at or before its end are kept, one between them is
\* dropped
C4_Witness ==
  /\ Filtrado
  /\ "Mes" \in df.cols
  /\ sel.usar_filtro_meses
  /\ sel.mes_inicio_num > sel.mes_fin_num
  /\ \E l \in ConFecha(df_filtrado) : Val(RowAt(df, l)["Mes"]) >= sel.mes_inicio_num
  /\ \E l \in ConFecha(df_filtrado) : Val(RowAt(df, l)["Mes"]) <= sel.mes_fin_num
  /\ \E l \in ConFecha(df) : l \notin Labels(df_filtrado) /\ PasaOtros(l, "Mes")

RECURSIVE SumaNuevos(_)
\* the sum of the counts of a series
SumaNuevos(serie) ==
  IF serie = << >> THEN 0 ELSE Head(serie).Nuevos + SumaNuevos(Tail(serie))

RECURSIVE SumaNuevosDe(_)
\* the sum of the counts of a set of groups
SumaNuevosDe(gs) ==
  IF gs = {} THEN 0
  ELSE LET g == CHOOSE x \in gs : TRUE IN g.Nuevos + SumaNuevosDe(gs \ {g})

\* C5: a record without a timestamp that the filters on age group, leader
\* and meeting keep is in the filtered table, whose records total_personas
\* counts; the monthly counts and the weekly counts each add up to the
\* number of records of the filtered table that have a timestamp
C5_SinFechaEnTotal ==
  Agrupado =>
    /\ \A l \in Labels(df) \ ConFecha(df) :
         (/\ FiltroGrupo(df, sel)[l]
          /\ FiltroLider(df, sel, columna_lider)[l]
          /\ FiltroReunion(df, sel, columna_reunion)[l]) => l \in Labels(df_filtrado)
    /\ metricas.total_personas = Cardinality(Labels(df_filtrado))
    /\ SumaNuevos(mensual) = Cardinality(ConFecha(df_filtrado))
    /\ SumaNuevosDe(semanal) = Cardinality(ConFecha(df_filtrado))

\* years and months filtered: the filtered table has a record without
\* timestamp and dated ones, and a dated record was dropped
C5_Witness ==
  /\ Agrupado
  /\ sel.anios_seleccionados # {}
  /\ sel.usar_filtro_meses
  /\ Labels(df_filtrado) \ ConFecha(df_filtrado) # {}
  /\ ConFecha(df_filtrado) # {}
  /\ ConFecha(df) \ Labels(df_filtrado) # {}
  /\ metricas.total_personas > SumaNuevos(mensual)

\* the float 0.0
EsCero(x) == x.kind = "finite" /\ x.num = 0

\* C6: every percentage whose denominator is 0 is exactly 0: the three of
\* the totals when total_personas is 0, and the three of a leader's and of
\* a meeting's group when its Nuevos is 0
C6_PorcentajeCero ==
  /\ (Filtrado /\ metricas.total_personas = 0) =>
       EsCero(metricas.pct_llamadas) /\ EsCero(metricas.pct_celula)
         /\ EsCero(metricas.pct_visita)
  /\ (pc = "fin" /\ columna_lider # "") =>
       \A g \in lideres_stats :
         g.Nuevos = 0 =>
           EsCero(g.PctLlamadas) /\ EsCero(g.PctCelula) /\ EsCero(g.PctVisitas)
  /\ (pc = "fin" /\ columna_reunion # "") =>
       \A g \in reunion_stats :
         g.Nuevos = 0 =>
           EsCero(g.PctLlamadas) /\ EsCero(g.PctCelula) /\ EsCero(g.PctVisitas)

\* C7: on a sheet without any subset of the optional columns, and no cell
\* missing in the columns it has, the run raises no exception
C7_ColumnasAusentes ==
  (\A i \in 1..NRows(sheet) : \A c \in sheet.cols : ~IsNa(sheet.rows[i][c])) =>
    raised = ""

\* C8: normalizing a normalized SI/NO cell again leaves it as it is
C8_Idempotente ==
  Procesado =>
    \A i \in 1..NRows(df) :
      \A j \in 1..Len(columnas_sino) :
        columnas_sino[j] \in df.cols =>
          NormalizeSiNo(df.rows[i][columnas_sino[j]]) = df.rows[i][columnas_sino[j]]

\* an alias with padding and in lower case was normalized to SI
C8_Witness ==
  /\ Procesado
  /\ NRows(df) = 1
  /\ ColLlamada \in sheet.cols
  /\ sheet.rows[1][ColLlamada] = Cell(<< " ", "s", "í" >>)
  /\ df.rows[1][ColLlamada] = Cell(SI)

\* the keys of a replacement table
Claves(map) == {map[i][1] : i \in 1..Len(map)}

\* C9: a normalized SI/NO cell is SI when the trimmed, upper-cased text of
\* the source is an affirmative alias, NO when it is a negative alias, and
\* that trimmed, upper-cased text otherwise; a cell missing in the source is
\* missing afterwards
C9_SiNoOTextoFuente ==
  Procesado =>
    \A i \in 1..NRows(df) :
      \A j \in 1..Len(columnas_sino) :
        columnas_sino[j] \in sheet.cols =>
          \A c \in {sheet.rows[i][columnas_sino[j]]} :
            df.rows[i][columnas_sino[j]] =
              IF IsNa(c) THEN NaN
              ELSE IF StrUpper(StrStrip(Val(c))) \in Claves(ReemplazosSi) THEN Cell(SI)
              ELSE IF StrUpper(StrStrip(Val(c))) \in Claves(ReemplazosNo)
                   THEN Cell(<< "N", "O" >>)
              ELSE Cell(StrUpper(StrStrip(Val(c))))

\* C10: a run whose fetch failed, whatever the message of the failure,
\* ends with st.error; a run whose fetch delivered a table of zero rows ends
\* with st.warning; neither has a processed table; every other run shows
\* neither and goes on to preprocess_data
C10_ResultadoDeCarga ==
  (pc \notin {"cargar", "verificar"}) =>
    IF ~IsNa(error)
    THEN pc = "detenido" /\ mensaje = "st.error" /\ df = Unbound
    ELSE IF NRows(sheet) = 0
         THEN pc = "detenido" /\ mensaje = "st.warning" /\ df = Unbound
         ELSE pc # "detenido" /\ mensaje = ""

\* C11: sheet_url is read only when load_data's cache holds no entry
\* younger than 5 minutes: a step of a run that reads it starts where no
\* entry is alive; and the first access of load_data where no entry is alive
\* (none yet, the entry expired, or the caches emptied by the button) reads it
C11_SoloSinEntradaVigente ==
  [][/\ (Len(solicitudes') > Len(solicitudes)) => ~Vigente(cache_load, reloj)
     /\ (pc = "cargar" /\ pc' = "verificar" /\ ~Vigente(cache_load, reloj)) =>
          Len(solicitudes') > Len(solicitudes)]_vars

\* C12: the result of a failed fetch is never stored, so a failure that a
\* run shows was fetched in that run; and no entry that st.cache_data keeps,
\* a normalized table included, is older than 5 minutes
C12_SoloFetchExitoso ==
  /\ ~IsNa(cache_load) => IsNa(Val(cache_load).valor[2])
  /\ ~IsNa(error) => solicitudes # << >>
  /\ \A e \in cache_preprocess : reloj < e.guardado + ttl

\* C13: a record without a timestamp after preprocess_data has no value in
\* any of Año, Mes, Mes_Nombre, Semana, Dia_Semana, Fecha and Es_Fin_Semana
C13_CamposDerivadosAusentes ==
  (Procesado /\ ColMarca \in df.cols) =>
    \A i \in 1..NRows(df) :
      IsNa(df.rows[i][ColMarca]) =>
        \A k \in (ColumnasFecha \cup {"Es_Fin_Semana"}) \cap df.cols :
          IsNa(df.rows[i][k])

\* the neighborhood a source cell stands for: the placeholder when it is
\* missing or empty after trimming, its trimmed, title-cased text otherwise
BarrioEsperado(c) ==
  IF IsNa(c) \/ StrStrip(Val(c)) = << >>
  THEN NoEspecificado
  ELSE StrTitle(StrStrip(Val(c)))

\* C14: with the neighborhood column present, the Barrio of every record
\* is the placeholder when its source cell is missing or empty after
\* trimming and the trimmed, title-cased source text otherwise, so never
\* missing and never empty; and barrios_top counts every record of the
\* filtered table under that text
C14_BarrioNoVacio ==
  /\ (Procesado /\ ColBarrio \in sheet.cols) =>
       \A i \in 1..NRows(df) :
         df.rows[i]["Barrio"] = Cell(BarrioEsperado(sheet.rows[i][ColBarrio]))
  /\ (pc \in {"fin", "terminado"} /\ ColBarrio \in sheet.cols) =>
       \A l \in Labels(df_filtrado) :
         \E b \in barrios_top :
           /\ b.valor = BarrioEsperado(RowAt(df, l)[ColBarrio])
           /\ b.cantidad =
                Cardinality({m \in Labels(df_filtrado) :
                               BarrioEsperado(RowAt(df, m)[ColBarrio])
                                 = BarrioEsperado(RowAt(df, l)[ColBarrio])})

====
